---- MODULE Spec2Model ----
(***************************************************************************)
(* Model of packages/strapi-admin/index.js: materialization of the merged  *)
(* tree (.cache), manifest generation, the build / watchAdmin              *)
(* orchestration and the chokidar event handler of watchFiles.             *)
(*                                                                         *)
(* Strings are sequences of tokens.  A token is a piece of text that the   *)
(* program's string operations never cut: "/" is a token, "admin" is a     *)
(* token, so the file name admin-logo.png is <<"admin", "-logo.png">>.     *)
(* split, replace, includes and the handler's regular expression are       *)
(* computed on these sequences the way JavaScript computes them on         *)
(* characters.  A path is a sequence of segments, a segment is a string.   *)
(* The filesystem is a function from the existing paths to their content:  *)
(* DirNode for a directory, a string for a file.                           *)
(***************************************************************************)
EXTENDS Integers, Sequences, FiniteSets, TLC

(***************************************************************************)
(* Bounds                                                                  *)
(***************************************************************************)
\* number of override edits (one watcher event each) in a watch session
MaxEvents == 2
\* number of filesystem operations that fail for an outside reason
MaxFaults == 1

(***************************************************************************)
(* JavaScript string operations on token sequences                         *)
(***************************************************************************)
\* the value of an array element that does not exist
Undefined == <<"undefined">>

\* s.startsWith(pre)
StartsWith(s, pre) ==
  Len(pre) <= Len(s) /\ SubSeq(s, 1, Len(pre)) = pre

\* positions at which pat occurs in s, from position k on
Occurrences(s, pat, k) ==
  {i \in k..(Len(s) - Len(pat) + 1) : SubSeq(s, i, i + Len(pat) - 1) = pat}

Min(S) == CHOOSE x \in S : \A y \in S : x <= y

\* s.indexOf(pat, k), 0 when there is none (positions count from 1)
IndexOf(s, pat, k) ==
  LET occ == Occurrences(s, pat, k)
  IN  IF occ = {} THEN 0 ELSE Min(occ)

\* s.includes(pat)
Includes(s, pat) == IndexOf(s, pat, 1) # 0

RECURSIVE SplitFrom(_, _, _)
SplitFrom(s, sep, k) ==
  LET i == IndexOf(s, sep, k)
  IN  IF i = 0
        THEN <<SubSeq(s, k, Len(s))>>
        ELSE <<SubSeq(s, k, i - 1)>> \o SplitFrom(s, sep, i + Len(sep))

\* s.split(sep) for a non-empty separator
Split(s, sep) == SplitFrom(s, sep, 1)

\* array[i], JavaScript index (0-based)
At(arr, i) == IF i + 1 <= Len(arr) THEN arr[i + 1] ELSE Undefined

\* s.replace(pat, rep) with a string pattern: the first occurrence only
ReplaceFirst(s, pat, rep) ==
  LET i == IndexOf(s, pat, 1)
  IN  IF i = 0
        THEN s
        ELSE SubSeq(s, 1, i - 1) \o rep \o SubSeq(s, i + Len(pat), Len(s))

\* arr.filter(p => !!p).length
CountNonEmpty(arr) == Cardinality({i \in 1..Len(arr) : arr[i] # <<>>})

(***************************************************************************)
(* Paths                                                                   *)
(***************************************************************************)
Slash == <<"/">>

\* the string of an absolute path: "/" before every segment
RECURSIVE PathStr(_)
PathStr(p) ==
  IF p = <<>> THEN <<>> ELSE Slash \o Head(p) \o PathStr(Tail(p))

\* the segments of a string; path.join / path.resolve drop the empty ones
DropEmpty(arr) == SelectSeq(arr, LAMBDA x : x # <<>>)
ParsePath(s) == DropEmpty(Split(s, Slash))

\* path.join(base, s) where base is a path and s a string
PathJoin(base, s) == ParsePath(PathStr(base) \o Slash \o s)

IsPrefix(p, q) == Len(p) <= Len(q) /\ SubSeq(q, 1, Len(p)) = p
\* q = p \o Rel(p, q) when p is a prefix of q
Rel(p, q) == SubSeq(q, Len(p) + 1, Len(q))
ProperPrefixes(p) == {SubSeq(p, 1, k) : k \in 1..(Len(p) - 1)}

(***************************************************************************)
(* Filesystem (fs-extra)                                                   *)
(***************************************************************************)
DirNode == <<"<dir>">>

\* fs.existsSync / fs.pathExistsSync
PathExists(f, p) == p \in DOMAIN f
IsDir(f, p) == p \in DOMAIN f /\ f[p] = DirNode
IsFile(f, p) == p \in DOMAIN f /\ f[p] # DirNode

Under(f, p) == {q \in DOMAIN f : IsPrefix(p, q)}

\* fs.removeSync(p): p and everything below it
Remove(f, p) == [q \in DOMAIN f \ Under(f, p) |-> f[q]]

\* fs.ensureDir(p) succeeds unless a file is in the way
CanEnsureDir(f, p) ==
  \A q \in ProperPrefixes(p) \cup {p} : ~IsFile(f, q)
EnsureDir(f, p) ==
  [q \in DOMAIN f \cup ProperPrefixes(p) \cup {p} |->
     IF q \in DOMAIN f THEN f[q] ELSE DirNode]

\* an emptyDir that keeps what is in the directory
EmptyDir_Keep(f, p) == EnsureDir(f, p)

\* fs.emptyDir(p): p exists and is empty afterwards
EmptyDir(f, p) == EnsureDir(Remove(f, p), p)

\* fs.copy(src, dest) rejects when src is missing, when a directory would
\* replace a file or a file a directory, or when dest's parent is a file
CanCopy(f, src, dest) ==
  /\ PathExists(f, src)
  /\ \A q \in ProperPrefixes(dest) : ~IsFile(f, q)
  /\ \A q \in Under(f, src) :
       PathExists(f, dest \o Rel(src, q))
         => (IsDir(f, q) <=> IsDir(f, dest \o Rel(src, q)))

\* fs.copy(src, dest), overwrite on: dest's parents are created, every file
\* below src replaces the file at the same place below dest
Copy(f, src, dest) ==
  LET copied == {dest \o Rel(src, q) : q \in Under(f, src)}
  IN  [t \in DOMAIN f \cup ProperPrefixes(dest) \cup copied |->
         IF t \in copied THEN f[src \o Rel(dest, t)]
         ELSE IF t \in DOMAIN f THEN f[t]
         ELSE DirNode]

\* fs.writeFile(p, text) rejects when p's directory is missing or p is a
\* directory
CanWriteFile(f, p) ==
  /\ Len(p) > 1 => IsDir(f, SubSeq(p, 1, Len(p) - 1))
  /\ ~IsDir(f, p)
WriteFile(f, p, text) ==
  [q \in DOMAIN f \cup {p} |-> IF q = p THEN text ELSE f[q]]

(***************************************************************************)
(* Names and places                                                        *)
(***************************************************************************)
\* a segment or package name made of one token
S(x) == <<x>>

\* the project root passed as `dir`
dir == <<S("proj")>>
\* path.resolve(dir, '.cache')
cacheDir == dir \o <<S(".cache")>>

AdminPkg == S("strapi-admin")
\* 'strapi-plugin-users', 'strapi-pluginx' and a dependency that is no plugin
UsersPlugin == <<"strapi-plugin", "-", "users">>
XPlugin == <<"strapi-plugin", "x">>
Lodash == S("lodash")
\* 'strapi-plugin-upload', declared by a project that has not installed it
UploadPlugin == <<"strapi-plugin", "-", "upload">>
\* 'strapi-pluginy' and 'strapi-plugin-strapi-pluginy': both pass the filter
\* of line 97 and name.replace(/^strapi-plugin-/i, '') gives 'strapi-pluginy'
\* for both
YPlugin == <<"strapi-plugin", "y">>
YYPlugin == <<"strapi-plugin", "-", "strapi-plugin", "y">>

\* where packages are installed: path.dirname(require.resolve(name/package.json))
PkgRoot(name) == dir \o <<S("node_modules"), name>>
\* require.resolve throws when the package's package.json is not found
CanResolve(f, name) == IsFile(f, PkgRoot(name) \o <<S("package.json")>>)
getPkgPath(name) == PkgRoot(name)

\* name.replace(/^strapi-plugin-/i, '')
shortName(name) ==
  IF Len(name) >= 2 /\ name[1] \in {"strapi-plugin", "Strapi-Plugin"}
       /\ name[2] = "-"
    THEN SubSeq(name, 3, Len(name))
    ELSE name

\* `strapi-plugin-${pluginName}`
PluginPackage(pluginName) == <<"strapi-plugin", "-">> \o pluginName

AdminSeg == S("admin")
SrcSeg == S("src")
ConfigSeg == S("config")
LayoutJs == S("layout.js")
PackageJson == S("package.json")
PluginsJs == S("plugins.js")
IndexJs == S("index.js")
PluginsSeg == S("plugins")
ExtensionsSeg == S("extensions")

\* path.resolve(dest, 'admin', 'src', 'plugins.js')
ManifestPath(dest) == dest \o <<AdminSeg, SrcSeg, PluginsJs>>

(***************************************************************************)
(* createPluginsJs                                                         *)
(***************************************************************************)
RECURSIVE JoinStr(_, _)
\* arr.join(sep)
JoinStr(arr, sep) ==
  IF arr = <<>> THEN <<>>
  ELSE IF Len(arr) = 1 THEN arr[1]
  ELSE arr[1] \o sep \o JoinStr(Tail(arr), sep)

\* `require('../../plugins/${name}/admin/src').default`
req(name) ==
  <<"require('../../plugins/">> \o name \o <<"/admin/src').default">>

\* `'${shortName}': ${req}`
ManifestEntry(name) ==
  <<"'">> \o shortName(name) \o <<"': ">> \o req(name)

\* the text createPluginsJs writes for a plugin list
ManifestText(plugins) ==
  <<"bootstrap; module.exports = {">>
    \o JoinStr([i \in 1..Len(plugins) |-> ManifestEntry(plugins[i])],
               <<",\n">>)
    \o <<"}">>

\* an object literal that keeps the first of two properties with one key
DefineProperty_KeepFirst(obj, key, value) == obj @@ (key :> value)

\* a property of an object literal: a key that occurs again replaces the
\* earlier value
DefineProperty(obj, key, value) == (key :> value) @@ obj

\* the properties of the object literal of lines 36-44 are defined in the
\* order of the text
RECURSIVE DefineProperties(_, _)
DefineProperties(obj, names) ==
  IF names = <<>> THEN obj
  ELSE DefineProperties(
         DefineProperty(obj, shortName(Head(names)), req(Head(names))),
         Tail(names))

\* the value of module.exports when the manifest of a plugin list is loaded
Exports(plugins) == DefineProperties([k \in {} |-> <<>>], plugins)

CanCreatePluginsJs(f, dest) == CanWriteFile(f, ManifestPath(dest))
\* a createPluginsJs that appends to the file that is there
createPluginsJs_Appending(f, plugins, dest) ==
  WriteFile(f, ManifestPath(dest),
            (IF IsFile(f, ManifestPath(dest)) THEN f[ManifestPath(dest)]
             ELSE <<>>) \o ManifestText(plugins))

createPluginsJs(f, plugins, dest) ==
  WriteFile(f, ManifestPath(dest), ManifestText(plugins))

(***************************************************************************)
(* Plugin discovery (createCacheDir 95-99, watchFiles 235-239)             *)
(***************************************************************************)
IsPluginDep(f, dep) ==
  /\ StartsWith(dep, <<"strapi-plugin">>)
  /\ PathExists(f, getPkgPath(dep) \o <<AdminSeg, SrcSeg, IndexJs>>)

\* the filter throws when getPkgPath throws for a dependency it looks at
CanFilterPlugins(f, dependencies) ==
  \A i \in 1..Len(dependencies) :
    StartsWith(dependencies[i], <<"strapi-plugin">>)
      => CanResolve(f, dependencies[i])

FilterPlugins(f, dependencies) ==
  SelectSeq(dependencies, LAMBDA dep : IsPluginDep(f, dep))

(***************************************************************************)
(* copyAdmin, copyPlugin, copyCustomAdmin                                  *)
(***************************************************************************)
CanCopyAdmin(f, dest) ==
  /\ CanResolve(f, AdminPkg)
  /\ CanEnsureDir(f, dest \o <<ConfigSeg>>)
  /\ CanCopy(f, getPkgPath(AdminPkg) \o <<AdminSeg>>, dest \o <<AdminSeg>>)
  /\ CanCopy(f, getPkgPath(AdminPkg) \o <<ConfigSeg, LayoutJs>>,
             dest \o <<ConfigSeg, LayoutJs>>)

copyAdmin(f, dest) ==
  Copy(Copy(EnsureDir(f, dest \o <<ConfigSeg>>),
            getPkgPath(AdminPkg) \o <<AdminSeg>>, dest \o <<AdminSeg>>),
       getPkgPath(AdminPkg) \o <<ConfigSeg, LayoutJs>>,
       dest \o <<ConfigSeg, LayoutJs>>)

\* resolveDest(...args)
PluginDest(dest, name) == dest \o <<PluginsSeg, name>>

CanCopyPlugin(f, name, dest) ==
  /\ CanResolve(f, name)
  /\ CanCopy(f, getPkgPath(name) \o <<AdminSeg>>,
             PluginDest(dest, name) \o <<AdminSeg>>)
  /\ PathExists(f, getPkgPath(name) \o <<ConfigSeg, LayoutJs>>)
       => /\ CanEnsureDir(f, PluginDest(dest, name) \o <<ConfigSeg>>)
          /\ CanCopy(f, getPkgPath(name) \o <<ConfigSeg, LayoutJs>>,
                     PluginDest(dest, name) \o <<ConfigSeg, LayoutJs>>)
  /\ CanCopy(f, getPkgPath(name) \o <<PackageJson>>,
             PluginDest(dest, name) \o <<PackageJson>>)

copyPlugin(f, name, dest) ==
  LET f1 == Copy(f, getPkgPath(name) \o <<AdminSeg>>,
                 PluginDest(dest, name) \o <<AdminSeg>>)
      f2 == IF PathExists(f, getPkgPath(name) \o <<ConfigSeg, LayoutJs>>)
              THEN Copy(EnsureDir(f1, PluginDest(dest, name) \o <<ConfigSeg>>),
                        getPkgPath(name) \o <<ConfigSeg, LayoutJs>>,
                        PluginDest(dest, name) \o <<ConfigSeg, LayoutJs>>)
              ELSE f1
  IN  Copy(f2, getPkgPath(name) \o <<PackageJson>>,
           PluginDest(dest, name) \o <<PackageJson>>)

\* Promise.all(pluginsToCopy.map(copyPlugin)): the copies go to disjoint
\* directories; the ones that can be made are made
RECURSIVE CopyPlugins(_, _, _)
CopyPlugins(f, plugins, dest) ==
  IF plugins = <<>> THEN f
  ELSE CopyPlugins(IF CanCopyPlugin(f, Head(plugins), dest)
                     THEN copyPlugin(f, Head(plugins), dest) ELSE f,
                   Tail(plugins), dest)

CanCopyPlugins(f, plugins, dest) ==
  \A i \in 1..Len(plugins) : CanCopyPlugin(f, plugins[i], dest)

CanCopyCustomAdmin(f, src, dest) == CanCopy(f, src, dest \o <<AdminSeg>>)
copyCustomAdmin(f, src, dest) == Copy(f, src, dest \o <<AdminSeg>>)

\* path.join(dir, 'admin')
ProjectAdmin == dir \o <<AdminSeg>>
\* path.join(dir, 'extensions', pluginName, 'admin')
ExtensionAdmin(pluginName) == dir \o <<ExtensionsSeg, pluginName, AdminSeg>>

\* createCacheDir 121-129
pluginsToOverride(f, plugins) ==
  SelectSeq([i \in 1..Len(plugins) |-> shortName(plugins[i])],
            LAMBDA pluginName : PathExists(f, ExtensionAdmin(pluginName)))

\* the destination createCacheDir 135 passes for an overridden plugin
OverrideDest(plugin) == cacheDir \o <<PluginsSeg, PluginPackage(plugin)>>

RECURSIVE CopyOverrides(_, _)
CopyOverrides(f, overridden) ==
  IF overridden = <<>> THEN f
  ELSE CopyOverrides(
         IF CanCopyCustomAdmin(f, ExtensionAdmin(Head(overridden)),
                               OverrideDest(Head(overridden)))
           THEN copyCustomAdmin(f, ExtensionAdmin(Head(overridden)),
                                OverrideDest(Head(overridden)))
           ELSE f,
         Tail(overridden))

CanCopyOverrides(f, overridden) ==
  \A i \in 1..Len(overridden) :
    CanCopyCustomAdmin(f, ExtensionAdmin(overridden[i]),
                       OverrideDest(overridden[i]))

\* createCacheDir (90-139) from its first line to its last on filesystem f
\* with the dependency list of package.json, no step failing
createCacheDir(f, dependencies) ==
  LET pluginsToCopy == FilterPlugins(f, dependencies)
      f1 == EmptyDir(f, cacheDir)
      f2 == copyAdmin(f1, cacheDir)
      f3 == CopyPlugins(f2, pluginsToCopy, cacheDir)
      f4 == createPluginsJs(f3, pluginsToCopy, cacheDir)
      f5 == IF PathExists(f4, ProjectAdmin)
              THEN copyCustomAdmin(f4, ProjectAdmin, cacheDir)
              ELSE f4
  IN  CopyOverrides(f5, pluginsToOverride(f5, pluginsToCopy))

(***************************************************************************)
(* The watcher callback's path arithmetic (watchFiles 256-277, 301-309)    *)
(***************************************************************************)
ExtSep == <<"/", "extensions", "/">>

\* first position where /\/extensions\/([^\/]*)\/.*$/ matches: the text
\* "/extensions/" followed, after any run of non-slashes, by another "/"
ExtMatchAt(s) ==
  LET i == IndexOf(s, ExtSep, 1)
  IN  IF i # 0 /\ IndexOf(s, Slash, i + 3) # 0 THEN i ELSE 0

\* matched !== null
isExtension(s) == ExtMatchAt(s) # 0

\* matched[1]
pluginName(s) ==
  IF isExtension(s)
    THEN SubSeq(s, ExtMatchAt(s) + 3, IndexOf(s, Slash, ExtMatchAt(s) + 3) - 1)
    ELSE <<>>

packageName(s) ==
  IF isExtension(s) THEN PluginPackage(pluginName(s)) ELSE AdminPkg

targetPath(s) ==
  IF isExtension(s)
    THEN ReplaceFirst(At(Split(s, ExtSep), 1), pluginName(s), <<>>)
    ELSE At(Split(s, <<"/", "admin">>), 1)

\* a callback that works in the installed package
destFolder_InPlace(s) == getPkgPath(packageName(s))

destFolder(s) ==
  IF isExtension(s)
    THEN cacheDir \o <<PluginsSeg, packageName(s)>>
    ELSE cacheDir \o <<AdminSeg>>

\* path.join(destFolder, targetPath)
HandlerDest(s) == PathJoin(destFolder(s), targetPath(s))

\* path.join(getPkgPath(packageName), isExtension ? '' : 'admin', targetPath)
originalFilePathInNodeModules(s) ==
  PathJoin(getPkgPath(packageName(s))
             \o (IF isExtension(s) THEN <<>> ELSE <<AdminSeg>>),
           targetPath(s))

shouldCopyPluginsJSFile(s) ==
  CountNonEmpty(Split(s, <<"/", "admin", "/", "src">>)) = 1

\* the condition of lines 304-309
RegeneratesManifest(event, s) ==
  \/ event = "unlinkDir" /\ ~isExtension(s) /\ shouldCopyPluginsJSFile(s)
  \/ ~isExtension(s) /\ Includes(s, <<"plugins.js">>)

(***************************************************************************)
(* The layers on disk before the program runs                              *)
(***************************************************************************)
\* a tree with the given files (a function path -> text) and directories
Tree(files, dirs) ==
  LET nodes == DOMAIN files \cup dirs
      all == nodes \cup UNION {ProperPrefixes(p) : p \in nodes}
  IN  [q \in all |-> IF q \in DOMAIN files THEN files[q] ELSE DirNode]

Merge(f, g) == [q \in DOMAIN f \cup DOMAIN g |->
                  IF q \in DOMAIN g THEN g[q] ELSE f[q]]

AppJs == S("app.js")
ExtraJs == S("extra.js")
AdminLogo == <<"admin", "-logo.png">>
AJs == S("a.js")

\* the strapi-admin package, with or without its own admin/src/plugins.js
BaseFiles(withPluginsJs) ==
  LET r == PkgRoot(AdminPkg)
      core == (r \o <<PackageJson>> :> <<"base:package.json">>)
           @@ (r \o <<AdminSeg, SrcSeg, AppJs>> :> <<"base:app.js">>)
           @@ (r \o <<ConfigSeg, LayoutJs>> :> <<"base:layout.js">>)
  IN  IF withPluginsJs
        THEN core @@ (r \o <<AdminSeg, SrcSeg, PluginsJs>>
                        :> <<"base:plugins.js">>)
        ELSE core

\* the installed packages of the dependencies
InstalledFiles ==
  LET u == PkgRoot(UsersPlugin)
      x == PkgRoot(XPlugin)
      l == PkgRoot(Lodash)
      y == PkgRoot(YPlugin)
      yy == PkgRoot(YYPlugin)
  IN  (u \o <<PackageJson>> :> <<"users:package.json">>)
   @@ (u \o <<AdminSeg, SrcSeg, IndexJs>> :> <<"users:index.js">>)
   @@ (u \o <<ConfigSeg, LayoutJs>> :> <<"users:layout.js">>)
   @@ (x \o <<PackageJson>> :> <<"x:package.json">>)
   @@ (x \o <<AdminSeg, SrcSeg, IndexJs>> :> <<"x:index.js">>)
   @@ (l \o <<PackageJson>> :> <<"lodash:package.json">>)
   @@ (y \o <<PackageJson>> :> <<"y:package.json">>)
   @@ (y \o <<AdminSeg, SrcSeg, IndexJs>> :> <<"y:index.js">>)
   @@ (yy \o <<PackageJson>> :> <<"yy:package.json">>)
   @@ (yy \o <<AdminSeg, SrcSeg, IndexJs>> :> <<"yy:index.js">>)

\* override files a project may hold
P_PluginsJs == ProjectAdmin \o <<SrcSeg, PluginsJs>>
P_AppJs == ProjectAdmin \o <<SrcSeg, AppJs>>
P_AdminLogo == ProjectAdmin \o <<SrcSeg, AdminLogo>>
P_ExtA == ProjectAdmin \o <<SrcSeg, ExtensionsSeg, S("users"), AJs>>
E_UsersIndex == ExtensionAdmin(shortName(UsersPlugin)) \o <<SrcSeg, IndexJs>>
E_UsersExtra == ExtensionAdmin(shortName(UsersPlugin)) \o <<SrcSeg, ExtraJs>>
E_XIndex == ExtensionAdmin(shortName(XPlugin)) \o <<SrcSeg, IndexJs>>

OverrideText == <<"override">>
Overrides(paths) == [p \in paths |-> OverrideText]

\* the override files (and empty override directories) a project starts with
NoOverrides == [files |-> {}, dirs |-> {}]
PlainOverrides == [files |-> {P_PluginsJs, P_AppJs, E_UsersIndex}, dirs |-> {}]
OddOverrides ==
  [files |-> {P_AdminLogo, P_ExtA, E_UsersExtra, E_XIndex}, dirs |-> {}]
EmptyOverrideDirs == [files |-> {}, dirs |-> {ProjectAdmin \o <<SrcSeg>>}]

\* The projects the model starts from: the dependency list of package.json
\* in declaration order, the strapi-admin package ("ok", "noPluginsJs" when
\* it has no admin/src/plugins.js, "missing" when it is not installed) and
\* the overrides.
Projects ==
  { [deps |-> <<UsersPlugin>>, base |-> "ok", layout |-> NoOverrides,
     pkg |-> TRUE],
    [deps |-> <<UsersPlugin>>, base |-> "ok", layout |-> PlainOverrides,
     pkg |-> TRUE],
    [deps |-> <<UsersPlugin>>, base |-> "noPluginsJs",
     layout |-> PlainOverrides, pkg |-> TRUE],
    [deps |-> <<Lodash, XPlugin, UsersPlugin, YPlugin, YYPlugin>>,
     base |-> "ok", layout |-> OddOverrides, pkg |-> TRUE],
    [deps |-> <<UsersPlugin>>, base |-> "ok", layout |-> EmptyOverrideDirs,
     pkg |-> TRUE],
    [deps |-> <<Lodash, XPlugin, UsersPlugin>>, base |-> "missing",
     layout |-> PlainOverrides, pkg |-> TRUE],
    \* a declared plugin that is not installed
    [deps |-> <<UsersPlugin, UploadPlugin>>, base |-> "ok",
     layout |-> NoOverrides, pkg |-> TRUE],
    \* a project directory without package.json
    [deps |-> <<>>, base |-> "ok", layout |-> NoOverrides, pkg |-> FALSE] }

\* path.join(dir, 'package.json')
ProjectPackageJson == dir \o <<PackageJson>>

InitialFs(project) ==
  Tree((IF project.base = "missing" THEN <<>>
        ELSE BaseFiles(project.base = "ok"))
         @@ (IF project.pkg
               THEN (ProjectPackageJson :> <<"project:package.json">>)
               ELSE <<>>)
         @@ InstalledFiles @@ Overrides(project.layout.files),
       project.layout.dirs \cup {dir})

(***************************************************************************)
(* State                                                                   *)
(***************************************************************************)
VARIABLES
  fs,         \* the filesystem: layers, project overrides and .cache
  deps,       \* Object.keys(pkgJSON.dependencies), in declaration order
  mode,       \* the exported function that was called last: "build" or "watch"
  pc,         \* where build / watchAdmin is
  plugins,    \* createCacheDir's pluginsToCopy
  appPlugins, \* watchFiles' appPlugins
  started,    \* which of "bundler", "server", "watcher" have been started
  result,     \* the promise returned by build / watchAdmin
  bundle,     \* the arguments the bundler passed to the compiler.run callback
  handlers,   \* one record per delivered watcher event, in delivery order
  log,        \* what the watcher callbacks wrote with console.log
  faults,     \* filesystem operations that failed for an outside reason
  process     \* "running", or "exited" after an unhandled rejection

vars == <<fs, deps, mode, pc, plugins, appPlugins, started, result, bundle,
          handlers, log, faults, process>>

NoBundle == [err |-> "none", errors |-> <<>>, warnings |-> <<>>]

Pending == [status |-> "pending", message |-> <<>>, warnings |-> <<>>,
            stats |-> FALSE]

Init ==
  /\ \E project \in Projects :
       /\ fs = InitialFs(project)
       /\ deps = project.deps
  /\ mode \in {"build", "watch"}
  /\ pc = "createCacheDir"
  /\ plugins = <<>>
  /\ appPlugins = <<>>
  /\ started = {}
  /\ result = Pending
  /\ bundle = NoBundle
  /\ handlers = <<>>
  /\ log = {}
  /\ faults = 0
  /\ process = "running"

\* an operation either runs as the filesystem allows or, while the fault
\* budget lasts, fails for an outside reason (permissions, disk, ...)
Outcomes == IF faults < MaxFaults THEN {"ok", "fault"} ELSE {"ok"}
Charge(o) == faults' = IF o = "fault" THEN faults + 1 ELSE faults

\* a rejection of createCacheDir rejects the awaiting build / watchAdmin
Rejected(msg) == [status |-> "rejected", message |-> msg, warnings |-> <<>>,
                  stats |-> FALSE]
MaterializeFailed == <<"createCacheDir failed">>

(***************************************************************************)
(* createCacheDir, one action per awaited step                             *)
(***************************************************************************)
\* lines 91-99: read the dependencies and filter the plugins; require
\* throws when the project has no package.json
Discover ==
  /\ pc = "createCacheDir"
  /\ IF IsFile(fs, ProjectPackageJson) /\ CanFilterPlugins(fs, deps)
       THEN /\ plugins' = FilterPlugins(fs, deps)
            /\ pc' = "emptyDir"
            /\ UNCHANGED result
       ELSE /\ pc' = "rejected"
            /\ result' = Rejected(MaterializeFailed)
            /\ UNCHANGED plugins
  /\ UNCHANGED <<fs, deps, mode, appPlugins, started, bundle, handlers, log,
                 faults, process>>

\* an awaited step whose failure is swallowed: the function goes on
MatStep_Swallowed(can, f, next) ==
  /\ \E o \in Outcomes :
       /\ Charge(o)
       /\ fs' = IF o = "ok" /\ can THEN f ELSE fs
       /\ pc' = next
       /\ UNCHANGED result
  /\ UNCHANGED <<deps, mode, plugins, appPlugins, started, bundle, handlers,
                 log, process>>

\* the common shape of an awaited step: on success the tree becomes f and
\* the function goes on at `next`, on failure the rejection propagates
MatStep(can, f, next) ==
  /\ \E o \in Outcomes :
       /\ Charge(o)
       /\ IF o = "ok" /\ can
            THEN fs' = f /\ pc' = next /\ UNCHANGED result
            ELSE /\ pc' = "rejected"
                 /\ result' = Rejected(MaterializeFailed)
                 /\ UNCHANGED fs
  /\ UNCHANGED <<deps, mode, plugins, appPlugins, started, bundle, handlers,
                 log, process>>

\* line 104
EmptyCacheDir ==
  /\ pc = "emptyDir"
  /\ MatStep(CanEnsureDir(fs, cacheDir), EmptyDir(fs, cacheDir), "copyAdmin")

\* line 107
CopyAdmin ==
  /\ pc = "copyAdmin"
  /\ MatStep(CanCopyAdmin(fs, cacheDir), copyAdmin(fs, cacheDir),
             "copyPlugins")

\* line 110: every copy that can be made is made; one that fails rejects
\* createCacheDir
CopyAllPlugins ==
  /\ pc = "copyPlugins"
  /\ \E o \in Outcomes :
       /\ Charge(o)
       /\ IF o = "ok"
            THEN /\ fs' = CopyPlugins(fs, plugins, cacheDir)
                 /\ IF CanCopyPlugins(fs, plugins, cacheDir)
                      THEN pc' = "createPluginsJs" /\ UNCHANGED result
                      ELSE /\ pc' = "rejected"
                           /\ result' = Rejected(MaterializeFailed)
            ELSE /\ plugins # <<>>
                 /\ \E k \in 1..Len(plugins) :
                      fs' = CopyPlugins(
                              fs,
                              SelectSeq(plugins, LAMBDA n : n # plugins[k]),
                              cacheDir)
                 /\ pc' = "rejected"
                 /\ result' = Rejected(MaterializeFailed)
  /\ UNCHANGED <<deps, mode, plugins, appPlugins, started, bundle, handlers,
                 log, process>>

\* line 113
WritePluginsJs ==
  /\ pc = "createPluginsJs"
  /\ MatStep(CanCreatePluginsJs(fs, cacheDir),
             createPluginsJs(fs, plugins, cacheDir), "copyCustomAdmin")

\* lines 116-118
CopyProjectAdmin ==
  /\ pc = "copyCustomAdmin"
  /\ IF PathExists(fs, ProjectAdmin)
       THEN MatStep(CanCopyCustomAdmin(fs, ProjectAdmin, cacheDir),
                    copyCustomAdmin(fs, ProjectAdmin, cacheDir),
                    "overridePlugins")
       ELSE /\ pc' = "overridePlugins"
            /\ UNCHANGED <<fs, deps, mode, plugins, appPlugins, started,
                           result, bundle, handlers, log, faults, process>>

\* lines 121-138
OverridePlugins ==
  /\ pc = "overridePlugins"
  /\ MatStep(CanCopyOverrides(fs, pluginsToOverride(fs, plugins)),
             CopyOverrides(fs, pluginsToOverride(fs, plugins)),
             "materialized")

(***************************************************************************)
(* build (141-182)                                                         *)
(***************************************************************************)
\* the longest error list the bundler reports
MaxErrors == 3

ErrorTexts == {<<"error A">>, <<"error B">>}
ErrorLists == UNION {[1..n -> ErrorTexts] : n \in 0..MaxErrors}
WarningLists == {<<>>, <<<<"warning">>>>}

\* err of the compiler.run callback: none, an Error with a message, or a
\* value without one
BundlerErrs == {"none", "message", "noMessage"}
ErrMessage == <<"bundler failed">>

\* the messages object of lines 154-165
Messages(err, errors, warnings) ==
  IF err = "message"
    THEN [errors |-> <<ErrMessage>>, warnings |-> <<>>]
    ELSE [errors |-> errors, warnings |-> warnings]

\* a build that keeps every error message
KeepFirst_All(errors) == errors

\* messages.errors.length = 1 when it is longer (170-172)
KeepFirst(errors) == IF Len(errors) > 1 THEN SubSeq(errors, 1, 1) ELSE errors

\* what the promise of lines 152-181 settles to
BuildResult(err, errors, warnings) ==
  IF err = "noMessage"
    THEN [status |-> "rejected", message |-> <<"<err>">>,
          warnings |-> <<>>, stats |-> FALSE]
  ELSE IF Len(Messages(err, errors, warnings).errors) > 0
    THEN [status |-> "rejected",
          message |-> JoinStr(KeepFirst(Messages(err, errors, warnings).errors),
                              <<"\n\n">>),
          warnings |-> <<>>, stats |-> FALSE]
  ELSE [status |-> "resolved", message |-> <<>>,
        warnings |-> Messages(err, errors, warnings).warnings,
        stats |-> TRUE]

\* lines 145-153: webpack(config) and compiler.run
StartBundler ==
  /\ mode = "build"
  /\ pc = "materialized"
  /\ started' = started \cup {"bundler"}
  /\ pc' = "compiler.run"
  /\ UNCHANGED <<fs, deps, mode, plugins, appPlugins, result, bundle,
                 handlers, log, faults, process>>

\* the compiler.run callback
BundlerDone ==
  /\ pc = "compiler.run"
  /\ \E err \in BundlerErrs, errors \in ErrorLists, warnings \in WarningLists :
       /\ bundle' = [err |-> err, errors |-> errors, warnings |-> warnings]
       /\ result' = BuildResult(err, errors, warnings)
  /\ pc' = "settled"
  /\ UNCHANGED <<fs, deps, mode, plugins, appPlugins, started, handlers, log,
                 faults, process>>

(***************************************************************************)
(* watchAdmin (184-228) and the start of watchFiles (230-253)              *)
(***************************************************************************)
\* lines 188-225: the compiler and the dev server
StartDevServer ==
  /\ mode = "watch"
  /\ pc = "materialized"
  /\ started' = started \cup {"bundler", "server"}
  /\ pc' = "watchFiles"
  /\ UNCHANGED <<fs, deps, mode, plugins, appPlugins, result, bundle,
                 handlers, log, faults, process>>

\* line 227 and lines 231-253; watchAdmin then resolves
WatchFiles ==
  /\ pc = "watchFiles"
  /\ CanFilterPlugins(fs, deps)
  /\ appPlugins' = FilterPlugins(fs, deps)
  /\ started' = started \cup {"watcher"}
  /\ result' = [Pending EXCEPT !.status = "resolved"]
  /\ pc' = "watching"
  /\ UNCHANGED <<fs, deps, mode, plugins, bundle, handlers, log, faults,
                 process>>

(***************************************************************************)
(* The watch session: override edits and the watcher callback (255-324)    *)
(***************************************************************************)
\* filesToWatch (248)
filesToWatch ==
  {ProjectAdmin}
    \cup {ExtensionAdmin(shortName(appPlugins[i])) : i \in 1..Len(appPlugins)}
Watched(p) == \E root \in filesToWatch : IsPrefix(root, p)

\* the override files and directories the user edits during the session
EditFiles == {P_PluginsJs, P_AppJs, P_AdminLogo, P_ExtA,
              E_UsersIndex, E_UsersExtra, E_XIndex}
EditDirs == {ProjectAdmin, ProjectAdmin \o <<SrcSeg>>,
             ExtensionAdmin(shortName(UsersPlugin)) \o <<SrcSeg>>}

\* the text the n-th edit of the session writes
EditText(n) == <<"edit", ToString(n)>>

Parent(p) == SubSeq(p, 1, Len(p) - 1)

\* what each catch block of the callback writes to the console for the
\* callback of event number id: line 284, line 313 (nothing), line 321
RemoveFailureLog(id) == {<<id, "remove">>}
RestoreFailureLog == {}
\* a catch block at line 320 that logs nothing
CopyFailureLog_Silent(id) == {}
CopyFailureLog(id) == {<<id, "copy">>}
Settled(h) == h.pc \in {"done", "rejected"}
Quiet == \A i \in 1..Len(handlers) : Settled(handlers[i])

\* the callback from its first line to its first await, for an event that
\* chokidar delivers about path p when the filesystem is f
Deliver(event, p, f) ==
  LET s == PathStr(p)
      id == Len(handlers) + 1
      h == [event |-> event, file |-> p, alone |-> Quiet, failures |-> {},
            pc |-> "copying"]
  IN  IF event \in {"unlink", "unlinkDir"}
        THEN IF ~CanResolve(f, packageName(s)) \/ targetPath(s) = Undefined
               \* line 273 throws outside any try: the callback's promise
               \* rejects and nothing handles it
               THEN /\ handlers' = Append(handlers,
                         [h EXCEPT !.pc = "rejected", !.failures = {"resolve"}])
                    /\ fs' = f
                    /\ process' \in {"running", "exited"}
                    /\ UNCHANGED <<log, faults>>
               ELSE \E o \in Outcomes :
                      LET f2 == IF o = "ok" THEN Remove(f, HandlerDest(s))
                                ELSE f
                      IN  /\ Charge(o)
                          /\ fs' = f2
                          /\ log' = IF o = "ok" THEN log
                                    ELSE log \cup RemoveFailureLog(id)
                          /\ handlers' = Append(handlers,
                               [h EXCEPT
                                  !.failures = IF o = "ok" THEN {}
                                               ELSE {"remove"},
                                  !.pc = IF PathExists(f2,
                                            originalFilePathInNodeModules(s))
                                           THEN "restoring" ELSE "done"])
                          /\ UNCHANGED process
        ELSE /\ handlers' = Append(handlers, h)
             /\ fs' = f
             /\ UNCHANGED <<log, faults, process>>

CanEdit ==
  /\ pc = "watching"
  /\ process = "running"
  /\ Len(handlers) < MaxEvents

\* the user creates or rewrites an override file: 'add' or 'change'
WriteOverride ==
  /\ CanEdit
  /\ \E p \in EditFiles :
       /\ Watched(p)
       /\ IsDir(fs, Parent(p))
       /\ ~IsDir(fs, p)
       /\ Deliver(IF PathExists(fs, p) THEN "change" ELSE "add", p,
                  WriteFile(fs, p, EditText(Len(handlers) + 1)))
  /\ UNCHANGED <<deps, mode, pc, plugins, appPlugins, started, result,
                 bundle>>

\* the user deletes an override file: 'unlink'
DeleteOverride ==
  /\ CanEdit
  /\ \E p \in EditFiles :
       /\ Watched(p)
       /\ IsFile(fs, p)
       /\ Deliver("unlink", p, Remove(fs, p))
  /\ UNCHANGED <<deps, mode, pc, plugins, appPlugins, started, result,
                 bundle>>

\* the user creates an override directory: 'addDir'
MakeOverrideDir ==
  /\ CanEdit
  /\ \E d \in EditDirs :
       /\ Watched(d)
       /\ ~PathExists(fs, d)
       /\ IsDir(fs, Parent(d))
       /\ Deliver("addDir", d, EnsureDir(fs, d))
  /\ UNCHANGED <<deps, mode, pc, plugins, appPlugins, started, result,
                 bundle>>

\* the user removes an empty override directory: 'unlinkDir'
RemoveOverrideDir ==
  /\ CanEdit
  /\ \E d \in EditDirs :
       /\ Watched(d)
       /\ IsDir(fs, d)
       /\ Under(fs, d) = {d}
       /\ Deliver("unlinkDir", d, Remove(fs, d))
  /\ UNCHANGED <<deps, mode, pc, plugins, appPlugins, started, result,
                 bundle>>

Finish(i, failed) ==
  [handlers EXCEPT ![i].pc = "done", ![i].failures = @ \cup failed]

\* lines 291-311: the awaited fallback copy of a delete settles
FinishRestore ==
  /\ process = "running"
  /\ \E i \in 1..Len(handlers), o \in Outcomes :
       LET s == PathStr(handlers[i].file) IN
       /\ handlers[i].pc = "restoring"
       /\ Charge(o)
       /\ IF o = "ok" /\ CanCopy(fs, originalFilePathInNodeModules(s),
                                 HandlerDest(s))
            THEN /\ fs' = Copy(fs, originalFilePathInNodeModules(s),
                               HandlerDest(s))
                 /\ handlers' =
                      IF RegeneratesManifest(handlers[i].event, s)
                        THEN [handlers EXCEPT ![i].pc = "manifest"]
                        ELSE Finish(i, {})
            ELSE /\ handlers' = Finish(i, {"restore"})
                 /\ UNCHANGED fs
  /\ log' = log \cup RestoreFailureLog
  /\ UNCHANGED <<deps, mode, pc, plugins, appPlugins, started, result,
                 bundle, process>>

\* line 310: the awaited createPluginsJs of a delete settles
FinishManifest ==
  /\ process = "running"
  /\ \E i \in 1..Len(handlers), o \in Outcomes :
       /\ handlers[i].pc = "manifest"
       /\ Charge(o)
       /\ IF o = "ok" /\ CanCreatePluginsJs(fs, cacheDir)
            THEN /\ fs' = createPluginsJs(fs, appPlugins, cacheDir)
                 /\ handlers' = Finish(i, {})
            ELSE /\ handlers' = Finish(i, {"manifest"})
                 /\ UNCHANGED fs
  /\ log' = log \cup RestoreFailureLog
  /\ UNCHANGED <<deps, mode, pc, plugins, appPlugins, started, result,
                 bundle, process>>

\* lines 318-322: the awaited copy of any other event settles
FinishCopy ==
  /\ process = "running"
  /\ \E i \in 1..Len(handlers), o \in Outcomes :
       LET s == PathStr(handlers[i].file) IN
       /\ handlers[i].pc = "copying"
       /\ Charge(o)
       /\ IF /\ o = "ok"
             /\ targetPath(s) # Undefined
             /\ CanCopy(fs, handlers[i].file, HandlerDest(s))
            THEN /\ fs' = Copy(fs, handlers[i].file, HandlerDest(s))
                 /\ handlers' = Finish(i, {})
                 /\ UNCHANGED log
            ELSE /\ handlers' = Finish(i, {"copy"})
                 /\ log' = log \cup CopyFailureLog(i)
                 /\ UNCHANGED fs
  /\ UNCHANGED <<deps, mode, pc, plugins, appPlugins, started, result,
                 bundle, process>>

Next ==
  \/ Discover \/ EmptyCacheDir \/ CopyAdmin \/ CopyAllPlugins
  \/ WritePluginsJs \/ CopyProjectAdmin \/ OverridePlugins
  \/ StartBundler \/ BundlerDone
  \/ StartDevServer \/ WatchFiles
  \/ WriteOverride \/ DeleteOverride \/ MakeOverrideDir \/ RemoveOverrideDir
  \/ FinishRestore \/ FinishManifest \/ FinishCopy

Spec == Init /\ [][Next]_vars

(***************************************************************************)
(* A later call of build in the same project                               *)
(***************************************************************************)
\* build (141-143) is called again once createCacheDir of the earlier call
\* has returned or the watch session has gone quiet: createCacheDir runs on
\* the tree that is there
Rematerialize ==
  /\ \/ pc = "rejected"
     \/ pc = "materialized" /\ mode = "build"
     \/ pc = "watching" /\ Quiet
  /\ mode' = "build"
  /\ pc' = "createCacheDir"
  /\ plugins' = <<>>
  /\ appPlugins' = <<>>
  /\ started' = {}
  /\ result' = Pending
  /\ bundle' = NoBundle
  /\ handlers' = <<>>
  /\ log' = {}
  /\ process' = "running"
  /\ UNCHANGED <<fs, deps, faults>>

\* createCacheDir and the watch session with later calls of build; the
\* bundler, which does not touch the merged tree, is left out
NextRematerialize ==
  \/ Discover \/ EmptyCacheDir \/ CopyAdmin \/ CopyAllPlugins
  \/ WritePluginsJs \/ CopyProjectAdmin \/ OverridePlugins
  \/ StartDevServer \/ WatchFiles
  \/ WriteOverride \/ DeleteOverride \/ MakeOverrideDir \/ RemoveOverrideDir
  \/ FinishRestore \/ FinishManifest \/ FinishCopy
  \/ Rematerialize

SpecRematerialize == Init /\ [][NextRematerialize]_vars

(***************************************************************************)
(* Properties                                                              *)
(***************************************************************************)
Range(seq) == {seq[i] : i \in 1..Len(seq)}

\* The override layers of a plugin list: each watched root with the place
\* in the merged tree its files belong to and the root of the next-lower
\* layer (strapi-admin's admin tree, the plugin's installed admin tree).
OverrideRoots(pluginList) ==
  {[root |-> ProjectAdmin,
    dest |-> cacheDir \o <<AdminSeg>>,
    lower |-> PkgRoot(AdminPkg) \o <<AdminSeg>>]}
  \cup {[root |-> ExtensionAdmin(shortName(n)),
         dest |-> cacheDir \o <<PluginsSeg, n, AdminSeg>>,
         lower |-> PkgRoot(n) \o <<AdminSeg>>] : n \in Range(pluginList)}

RootOf(p, pluginList) ==
  CHOOSE r \in OverrideRoots(pluginList) : IsPrefix(r.root, p)
\* the destination of override path p in the merged tree
MergedDest(p, pluginList) ==
  RootOf(p, pluginList).dest \o Rel(RootOf(p, pluginList).root, p)
\* the same relative path in the next-lower layer
LowerSource(p, pluginList) ==
  RootOf(p, pluginList).lower \o Rel(RootOf(p, pluginList).root, p)

\* the trees at a and at b hold the same files and directories, the
\* generated manifest file aside
SameTree(f, a, b) ==
  /\ \A q \in Under(f, a) :
       b \o Rel(a, q) # ManifestPath(cacheDir)
         => PathExists(f, b \o Rel(a, q)) /\ f[b \o Rel(a, q)] = f[q]
  /\ \A t \in Under(f, b) :
       t # ManifestPath(cacheDir) => PathExists(f, a \o Rel(b, t))

\* createCacheDir has resolved and no watcher event has been delivered
Materialized ==
  /\ pc \in {"materialized", "compiler.run", "settled", "watchFiles",
             "watching"}
  /\ handlers = <<>>

\* C1: after a successful createCacheDir, every file that an override layer
\* and the layer below it both hold has the override's content at its
\* destination in the merged tree.
C1_Precedence ==
  Materialized =>
    \A r \in OverrideRoots(plugins) :
      \A q \in Under(fs, r.root) :
        (IsFile(fs, q) /\ PathExists(fs, r.lower \o Rel(r.root, q)))
          => /\ PathExists(fs, r.dest \o Rel(r.root, q))
             /\ fs[r.dest \o Rel(r.root, q)] = fs[q]

\* the last delivered event is a delete whose callback ran alone and
\* completed without a failure
DeleteDoneAlone ==
  /\ handlers # <<>>
  /\ handlers[Len(handlers)].event \in {"unlink", "unlinkDir"}
  /\ handlers[Len(handlers)].alone
  /\ handlers[Len(handlers)].pc = "done"
  /\ handlers[Len(handlers)].failures = {}

\* C2: after a delete of override path P handled alone and to completion,
\* P's destination holds the lower layer's content when the lower layer has
\* the path, and is absent when it has not (the manifest file aside).
C2_Fallback ==
  DeleteDoneAlone =>
    LET p == handlers[Len(handlers)].file
        d == MergedDest(p, appPlugins)
        l == LowerSource(p, appPlugins)
    IN  d # ManifestPath(cacheDir)
          => IF PathExists(fs, l) THEN SameTree(fs, l, d)
             ELSE ~PathExists(fs, d)

\* the callback has carried out an operation on the merged tree
Acted(h) ==
  \/ h.event \in {"unlink", "unlinkDir"} /\ h.pc # "rejected"
  \/ h.event \notin {"unlink", "unlinkDir"} /\ h.pc = "done"

\* C3: the callback of a later event on a path has carried out no
\* operation on the merged tree while the callback of an earlier event on
\* the same path is still running.
C3_Serialised ==
  \A i, j \in 1..Len(handlers) :
    (i < j /\ handlers[i].file = handlers[j].file /\ Acted(handlers[j]))
      => Settled(handlers[i])

\* every callback has completed and none failed
AllDone ==
  /\ pc = "watching"
  /\ process = "running"
  /\ \A i \in 1..Len(handlers) :
       handlers[i].pc = "done" /\ handlers[i].failures = {}

\* C4: once every callback has completed, each edited override file's
\* destination holds the content of the highest layer that has the path:
\* the override's, else the lower layer's, else nothing (the manifest file
\* aside).
C4_Converges ==
  AllDone =>
    \A i \in 1..Len(handlers) :
      LET p == handlers[i].file
          d == MergedDest(p, appPlugins)
          l == LowerSource(p, appPlugins)
      IN  (handlers[i].event \in {"add", "change", "unlink"}
             /\ d # ManifestPath(cacheDir))
            => IF IsFile(fs, p)
                 THEN PathExists(fs, d) /\ fs[d] = fs[p]
               ELSE IF PathExists(fs, l) THEN SameTree(fs, l, d)
               ELSE ~PathExists(fs, d)

\* C5: after a delete of the project's admin/src/plugins.js, admin/src or
\* admin handled alone and to completion, the merged tree holds the
\* generated manifest of the plugin list.
C5_ManifestRegenerated ==
  (DeleteDoneAlone
     /\ handlers[Len(handlers)].file
          \in {P_PluginsJs, ProjectAdmin \o <<SrcSeg>>, ProjectAdmin})
    => /\ PathExists(fs, ManifestPath(cacheDir))
       /\ fs[ManifestPath(cacheDir)] = ManifestText(appPlugins)

\* C6: no failure leaves a callback as a rejection and the watcher's
\* process keeps running.
C6_Contained ==
  /\ process = "running"
  /\ \A i \in 1..Len(handlers) : handlers[i].pc # "rejected"

C8_Frame ==
  [][\A i \in 1..Len(handlers) :
       (handlers[i].pc = "copying" /\ handlers'[i].pc = "done"
          /\ handlers'[i].failures = {})
         => LET d == MergedDest(handlers[i].file, appPlugins)
            IN  /\ PathExists(fs', d)
                /\ fs'[d] = fs[handlers[i].file]
                /\ \A q \in (DOMAIN fs \cup DOMAIN fs') :
                     (IsPrefix(cacheDir, q) /\ ~IsPrefix(d, q)
                        /\ ~IsPrefix(q, d))
                       => /\ q \in DOMAIN fs /\ q \in DOMAIN fs'
                          /\ fs'[q] = fs[q]]_vars

AfterMaterialize ==
  {"materialized", "compiler.run", "settled", "watchFiles", "watching"}

\* C9: the bundler, the dev server and the watcher are started only after
\* createCacheDir succeeded (the base layer is installed and copied); a
\* failed createCacheDir rejects the caller and starts nothing; the watcher
\* is never started before the dev server; build starts the bundler only.
C9_AfterMaterialize ==
  /\ started # {}
       => /\ pc \in AfterMaterialize
          /\ CanResolve(fs, AdminPkg)
          /\ PathExists(fs, cacheDir \o <<ConfigSeg, LayoutJs>>)
          /\ fs[cacheDir \o <<ConfigSeg, LayoutJs>>]
               = fs[PkgRoot(AdminPkg) \o <<ConfigSeg, LayoutJs>>]
  /\ pc = "rejected" => started = {} /\ result.status = "rejected"
  /\ "watcher" \in started => "server" \in started
  /\ mode = "build" => started \subseteq {"bundler"}

\* watchAdmin has started the dev server and then the watcher
C9_Witness ==
  /\ pc = "watching"
  /\ started = {"bundler", "server", "watcher"}

\* C10: with no error build resolves with the stats and the warnings; with
\* reported errors it rejects with the first message alone; a bundler error
\* with a message rejects with that message.
C10_BuildResult ==
  pc = "settled" =>
    /\ (bundle.err = "none" /\ bundle.errors = <<>>)
         => /\ result.status = "resolved"
            /\ result.stats
            /\ result.warnings = bundle.warnings
    /\ (bundle.err = "none" /\ bundle.errors # <<>>)
         => /\ result.status = "rejected"
            /\ result.message = bundle.errors[1]
    /\ bundle.err = "message"
         => /\ result.status = "rejected"
            /\ result.message = ErrMessage

\* the bundler reported three errors, the second unlike the first
C10_Witness ==
  /\ pc = "settled"
  /\ bundle.err = "none"
  /\ Len(bundle.errors) = 3
  /\ bundle.errors[2] # bundle.errors[1]
  /\ result.message = bundle.errors[1]

\* the declared dependencies that carry the prefix 'strapi-plugin', are
\* installed and have admin/src/index.js, in declaration order
ActivePlugins ==
  SelectSeq(deps, LAMBDA dep :
    /\ StartsWith(dep, <<"strapi-plugin">>)
    /\ CanResolve(fs, dep)
    /\ PathExists(fs, PkgRoot(dep) \o <<AdminSeg, SrcSeg, IndexJs>>))

\* C11: in a project with a package.json, discovery does not fail when a
\* declared plugin is not installed: createCacheDir goes on to its next step
\* with the installed plugins that have an admin entry module.
C11_MissingPluginExcluded ==
  [][(pc = "createCacheDir" /\ IsFile(fs, ProjectPackageJson))
       => /\ pc' = "emptyDir"
          /\ plugins' = ActivePlugins]_vars

\* C12: the step that copies the plugins never rejects createCacheDir: the
\* manifest is written next, and at most the plugin whose copy failed is
\* missing from plugins/.
C12_PluginCopyNotFatal ==
  [][pc = "copyPlugins"
       => /\ pc' = "createPluginsJs"
          /\ Cardinality({i \in 1..Len(plugins) :
               ~PathExists(fs', PluginDest(cacheDir, plugins[i])
                                  \o <<PackageJson>>)}) <= 1]_vars

\* C13: whenever createCacheDir has returned, on whatever tree it started,
\* the filesystem is the one a single run on an absent .cache produces from
\* the same layers and dependencies: no stale path, nothing missing.
C13_Idempotent ==
  pc = "materialized" => fs = createCacheDir(Remove(fs, cacheDir), deps)

\* the place of admin/src/extensions/users/a.js in the merged tree
StaleDest ==
  cacheDir \o <<AdminSeg, SrcSeg, ExtensionsSeg, S("users"), AJs>>

\* build has materialized again after a watch session in which the override
\* admin/src/extensions/users/a.js was deleted (its directory is still
\* there): the copy the session left in the merged tree is gone
C13_Witness ==
  /\ pc = "materialized"
  /\ mode = "build"
  /\ IsDir(fs, Parent(P_ExtA))
  /\ ~PathExists(fs, P_ExtA)
  /\ ~PathExists(fs, StaleDest)

\* the names of the directories directly under plugins/ in the merged tree
PluginDirs(f) ==
  {q[Len(q)] : q \in {t \in DOMAIN f :
                        /\ IsPrefix(cacheDir \o <<PluginsSeg>>, t)
                        /\ Len(t) = Len(cacheDir) + 2
                        /\ IsDir(f, t)}}

\* C14: after materialization the directories under plugins/ are exactly
\* the active plugins, the generated manifest (when no project override of
\* plugins.js replaced it) has one entry per active plugin in declaration
\* order, and the entry points it exports are exactly those of the active
\* plugins.
C14_ActiveSet ==
  Materialized =>
    /\ PluginDirs(fs) = Range(ActivePlugins)
    /\ ~PathExists(fs, P_PluginsJs)
         => /\ PathExists(fs, ManifestPath(cacheDir))
            /\ fs[ManifestPath(cacheDir)] = ManifestText(ActivePlugins)
    /\ {Exports(ActivePlugins)[k] : k \in DOMAIN Exports(ActivePlugins)}
         = {req(n) : n \in Range(ActivePlugins)}

\* the position of the last plugin of the list with short name k
LastWith(list, k) ==
  CHOOSE i \in 1..Len(list) :
    /\ shortName(list[i]) = k
    /\ \A j \in (i + 1)..Len(list) : shortName(list[j]) # k

C16_Deterministic ==
  [][(\/ pc = "createPluginsJs" /\ pc' = "copyCustomAdmin"
      \/ \E i \in 1..Len(handlers) :
           /\ handlers[i].pc = "manifest"
           /\ handlers'[i].pc = "done"
           /\ "manifest" \notin handlers'[i].failures)
       => /\ PathExists(fs', ManifestPath(cacheDir))
          /\ fs'[ManifestPath(cacheDir)] = ManifestText(ActivePlugins)]_vars

\* a delete callback has regenerated the manifest and it is the text that
\* createCacheDir wrote for its plugin list
C16_Witness ==
  /\ \E i \in 1..Len(handlers) :
       /\ handlers[i].event \in {"unlink", "unlinkDir"}
       /\ RegeneratesManifest(handlers[i].event, PathStr(handlers[i].file))
       /\ handlers[i].pc = "done"
       /\ handlers[i].failures = {}
  /\ Quiet
  /\ PathExists(fs, ManifestPath(cacheDir))
  /\ fs[ManifestPath(cacheDir)] = ManifestText(plugins)
  /\ appPlugins = plugins

\* C17: the destination the callback computes for the path of an event is
\* the destination root of the watched root joined with the path relative
\* to that root.
C17_Destination ==
  \A i \in 1..Len(handlers) :
    /\ targetPath(PathStr(handlers[i].file)) # Undefined
    /\ HandlerDest(PathStr(handlers[i].file))
         = MergedDest(handlers[i].file, appPlugins)

\* C18: for every plugin of the list whose extension directory exists,
\* createCacheDir's override destination is the directory copyPlugin copied
\* the plugin's admin subtree to, the override's files are there, and the
\* package the callback falls back to is the plugin.
C18_OverrideDestination ==
  Materialized =>
    \A n \in Range(plugins) :
      PathExists(fs, ExtensionAdmin(shortName(n)))
        => /\ OverrideDest(shortName(n)) = PluginDest(cacheDir, n)
           /\ \A q \in Under(fs, ExtensionAdmin(shortName(n))) :
                PathExists(fs, PluginDest(cacheDir, n) \o <<AdminSeg>>
                                 \o Rel(ExtensionAdmin(shortName(n)), q))
           /\ packageName(PathStr(ExtensionAdmin(shortName(n))
                                    \o <<SrcSeg, IndexJs>>)) = n

\* C19: after events that were each handled alone, to completion and
\* without a failure, the filesystem is the one createCacheDir produces from
\* the layers as they are now.
C19_SyncEqualsRebuild ==
  (AllDone /\ handlers # <<>>
     /\ \A i \in 1..Len(handlers) : handlers[i].alone)
    => fs = createCacheDir(Remove(fs, cacheDir), deps)

\* C20: no step changes a path outside .cache, the override path the user
\* edits in that step aside.
C20_SourcesUntouched ==
  [][\A q \in DOMAIN fs \cup DOMAIN fs' :
       (/\ ~IsPrefix(cacheDir, q)
        /\ ~(/\ Len(handlers') > Len(handlers)
             /\ q = handlers'[Len(handlers')].file))
         => /\ q \in DOMAIN fs
            /\ q \in DOMAIN fs'
            /\ fs'[q] = fs[q]]_vars

\* a delete callback removed the override's copy and restored the file of
\* the lower layer in the merged tree
C20_Witness ==
  \E i \in 1..Len(handlers) :
    /\ handlers[i].event = "unlink"
    /\ handlers[i].pc = "done"
    /\ handlers[i].failures = {}
    /\ IsPrefix(cacheDir, HandlerDest(PathStr(handlers[i].file)))
    /\ PathExists(fs, HandlerDest(PathStr(handlers[i].file)))
    /\ fs[HandlerDest(PathStr(handlers[i].file))]
         = fs[originalFilePathInNodeModules(PathStr(handlers[i].file))]
====
